---- MODULE Spec2Model ----
(***************************************************************************)
(* State-machine model of the socket.io game server in src/index.js:       *)
(* the in-memory room registry (gameRooms) and the handlers registered on  *)
(* every connection (createGame, joinGame, startGame, submitPrompt,        *)
(* submitCaption, getGameState, submitVote, disconnect), the suspended     *)
(* image-generation calls and the 10 s reset timers.                       *)
(***************************************************************************)
EXTENDS Integers, Sequences, FiniteSets, Bags, TLC

\* ---------------------------------------------------------------- bounds
MaxPlayers == 2   \* longest players array explored
MaxSubs    == 2   \* longest prompts / captions array explored
MaxRound   == 3   \* largest round value explored
MaxTimers  == 2   \* most reset timers pending at once
MaxPending == 2   \* most image-generation calls outstanding at once
MaxEvents  == 5   \* most client events the server handles in one behaviour

\* ------------------------------------------------------------ value sets
Conns == {"c1", "c2"}             \* socket ids; a socket id is never reused
Codes == {"A", "B"}               \* room codes generateRoomCode can return
Names == {"n"}                    \* player names
Texts == {"t"}                    \* prompt / caption texts

\* identities of room objects (what the closures capture by reference)
ObjIds == 1 .. (Cardinality(Codes) + MaxTimers + MaxPending + 1)

\* the value of undefined + 1 (and of NaN + 1) in room.scores
NaN == -1

ImageUrl == "https://example.com/generated-image.png"

VARIABLES
  open,       \* sockets that are connected (their handlers can still run)
  gameRooms,  \* the registry: room code -> room object
  keys,       \* insertion order of the registry's keys (for..in order)
  pending,    \* bag of suspended submitPrompt handlers (awaiting the image)
  timers,     \* queue of scheduled reset callbacks, in scheduling order
  last,       \* the event handled by the last step
  ack,        \* what the last step passed to its acknowledgment callback
  emitted,    \* the broadcasts the last step emitted, in order
  handled,    \* number of client events handled so far
  stalled     \* history: <<room code, collection>> pairs that a disconnect left
              \* larger than the players array in the current round, each with
              \* whether a joinGame has reached the room since

vars == <<open, gameRooms, keys, pending, timers, last, ack, emitted, handled, stalled>>

\* ------------------------------------------------------- object helpers
EmptyObj == [x \in {} |-> 0]

\* obj[k] = v
Put(obj, k, v) == [x \in (DOMAIN obj) \cup {k} |-> IF x = k THEN v ELSE obj[x]]

\* delete obj[k]
Delete(obj, k) == [x \in (DOMAIN obj) \ {k} |-> obj[x]]

\* mutant of RemovePlayer: the first entry is dropped, whoever it is
RemovePlayer_first(players, c) == IF players = <<>> THEN <<>> ELSE Tail(players)

\* players.filter((player) => player.id !== c)
RemovePlayer(players, c) == SelectSeq(players, LAMBDA p : p.id # c)

PlayerIds(room) == {room.players[i].id : i \in 1 .. Len(room.players)}

NoAck == [op |-> "none"]

Emit(roomCode, event, data) == [room |-> roomCode, event |-> event, data |-> data]

Event(op, c, roomCode) ==
  [op |-> op, conn |-> c, code |-> roomCode, removed |-> {}]

\* room objects referenced from the registry, a timer or a suspended handler
UsedIds ==
  {gameRooms[r].id : r \in DOMAIN gameRooms}
    \cup {timers[i].id : i \in 1 .. Len(timers)}
    \cup {p.id : p \in BagToSet(pending)}

FreshId == CHOOSE i \in ObjIds : i \notin UsedIds /\ \A j \in ObjIds \ UsedIds : i <= j

\* the object a closure captured is still the one registered under its code
Live(roomCode, id) == roomCode \in DOMAIN gameRooms /\ gameRooms[roomCode].id = id

\* ------------------------------------------------------------- handlers
\* mutant of allIn: the gate also opens when the collection is larger
allIn_atLeast(count, players) == count >= Len(players)

\* the gate of the three submit handlers: collection size === players.length
allIn(count, players) == count = Len(players)

Kinds == {"prompts", "captions", "votes"}

\* size of one of the three collections of a room
SizeOf(room, kind) ==
  CASE kind = "prompts" -> Len(room.gameState.prompts)
    [] kind = "captions" -> Len(room.gameState.captions)
    [] kind = "votes" -> Cardinality(DOMAIN room.gameState.votes)

\* stalled without the entries of one room code
Forget(roomCode) ==
  [x \in {y \in DOMAIN stalled : y[1] # roomCode} |-> stalled[x]]

generateRoomCode == Codes

NewRoom(id, host) ==
  [id |-> id, host |-> host, players |-> <<>>,
   gameState |-> [phase |-> "waiting", round |-> 1, prompts |-> <<>>,
                  imageUrl |-> "", captions |-> <<>>, votes |-> EmptyObj],
   scores |-> EmptyObj]

createGame(c) ==
  /\ c \in open
  /\ handled < MaxEvents
  /\ handled' = handled + 1
  /\ \E roomCode \in generateRoomCode :
       /\ gameRooms' = Put(gameRooms, roomCode, NewRoom(FreshId, c))
       /\ keys' = IF roomCode \in DOMAIN gameRooms THEN keys ELSE Append(keys, roomCode)
       /\ ack' = [op |-> "createGame", roomCode |-> roomCode]
       /\ last' = Event("createGame", c, roomCode)
       /\ stalled' = Forget(roomCode)
  /\ emitted' = <<>>
  /\ UNCHANGED <<open, pending, timers>>

\* the success branch of joinGame: push the player, zero the score
joinGameRoom(room, c, playerName) ==
  [room EXCEPT !.players = Append(@, [id |-> c, name |-> playerName]),
               !.scores = Put(@, c, 0)]

\* mutant of roomNotFound: the unknown room is acknowledged as joined
roomNotFound_success == [op |-> "joinGame", success |-> TRUE, message |-> ""]

\* the acknowledgment of the else branch of joinGame
roomNotFound == [op |-> "joinGame", success |-> FALSE, message |-> "Room not found."]

joinGame(c, roomCode, playerName) ==
  /\ c \in open
  /\ handled < MaxEvents
  /\ handled' = handled + 1
  /\ last' = Event("joinGame", c, roomCode)
  /\ IF roomCode \in DOMAIN gameRooms
       THEN /\ Len(gameRooms[roomCode].players) < MaxPlayers
            /\ gameRooms' = [gameRooms EXCEPT ![roomCode] = joinGameRoom(@, c, playerName)]
            /\ emitted' = <<Emit(roomCode, "updatePlayers", gameRooms'[roomCode].players)>>
            /\ ack' = [op |-> "joinGame", success |-> TRUE, message |-> ""]
            /\ stalled' = [x \in DOMAIN stalled |-> stalled[x] \/ x[1] = roomCode]
       ELSE /\ gameRooms' = gameRooms
            /\ emitted' = <<>>
            /\ ack' = roomNotFound
            /\ stalled' = stalled
  /\ UNCHANGED <<open, keys, pending, timers>>

startGame(c, roomCode) ==
  /\ c \in open
  /\ handled < MaxEvents
  /\ handled' = handled + 1
  /\ last' = Event("startGame", c, roomCode)
  /\ ack' = NoAck
  /\ IF roomCode \in DOMAIN gameRooms /\ c = gameRooms[roomCode].host
       THEN /\ gameRooms' = [gameRooms EXCEPT ![roomCode].gameState.phase = "promptSubmission"]
            /\ emitted' = <<Emit(roomCode, "phaseChange", "promptSubmission")>>
       ELSE /\ gameRooms' = gameRooms
            /\ emitted' = <<>>
  /\ UNCHANGED <<open, keys, pending, timers, stalled>>

\* the synchronous part of submitPrompt, up to the await
submitPrompt(c, roomCode, prompt) ==
  /\ c \in open
  /\ handled < MaxEvents
  /\ handled' = handled + 1
  /\ last' = Event("submitPrompt", c, roomCode)
  /\ ack' = NoAck
  /\ emitted' = <<>>
  /\ IF roomCode \in DOMAIN gameRooms
       THEN LET room == gameRooms[roomCode]
                prompts == Append(room.gameState.prompts, [id |-> c, prompt |-> prompt])
            IN  /\ Len(room.gameState.prompts) < MaxSubs
                /\ gameRooms' = [gameRooms EXCEPT ![roomCode].gameState.prompts = prompts]
                /\ IF allIn(Len(prompts), room.players)
                     THEN /\ BagCardinality(pending) < MaxPending
                          /\ \E i \in 1 .. Len(prompts) :
                               pending' = pending (+) SetToBag({[code |-> roomCode, id |-> room.id,
                                                                 prompt |-> prompts[i].prompt]})
                     ELSE pending' = pending
       ELSE /\ gameRooms' = gameRooms
            /\ pending' = pending
  /\ UNCHANGED <<open, keys, timers, stalled>>

\* what the continuation of submitPrompt writes into the room it captured
imageGenerated(room) ==
  [room EXCEPT !.gameState.imageUrl = ImageUrl,
               !.gameState.phase = "captionSubmission"]

\* generateAIImage resolves: the rest of the try block runs
generateAIImageResolved(p) ==
  /\ BagIn(p, pending)
  /\ pending' = pending (-) SetToBag({p})
  /\ gameRooms' = IF Live(p.code, p.id)
                    THEN [gameRooms EXCEPT ![p.code] = imageGenerated(@)]
                    ELSE gameRooms
  /\ emitted' = <<Emit(p.code, "imageGenerated", ImageUrl),
                  Emit(p.code, "phaseChange", "captionSubmission")>>
  /\ last' = Event("imageResolved", "", p.code)
  /\ ack' = NoAck
  /\ UNCHANGED <<open, keys, timers, handled, stalled>>

\* mutant of generateAIImageRejected: the phase is advanced after the catch
generateAIImageRejected_advance(p) ==
  /\ BagIn(p, pending)
  /\ pending' = pending (-) SetToBag({p})
  /\ gameRooms' = IF Live(p.code, p.id)
                    THEN [gameRooms EXCEPT ![p.code].gameState.phase = "captionSubmission"]
                    ELSE gameRooms
  /\ emitted' = <<>>
  /\ last' = Event("imageRejected", "", p.code)
  /\ ack' = NoAck
  /\ UNCHANGED <<open, keys, timers, handled, stalled>>

\* generateAIImage rejects: the catch block only logs
generateAIImageRejected(p) ==
  /\ BagIn(p, pending)
  /\ pending' = pending (-) SetToBag({p})
  /\ emitted' = <<>>
  /\ last' = Event("imageRejected", "", p.code)
  /\ ack' = NoAck
  /\ UNCHANGED <<open, gameRooms, keys, timers, handled, stalled>>

submitCaption(c, roomCode, caption) ==
  /\ c \in open
  /\ handled < MaxEvents
  /\ handled' = handled + 1
  /\ last' = Event("submitCaption", c, roomCode)
  /\ ack' = NoAck
  /\ IF roomCode \in DOMAIN gameRooms
       THEN LET room == gameRooms[roomCode]
                captions == Append(room.gameState.captions, [id |-> c, caption |-> caption])
            IN  /\ Len(room.gameState.captions) < MaxSubs
                /\ IF allIn(Len(captions), room.players)
                     THEN /\ gameRooms' = [gameRooms EXCEPT
                                             ![roomCode].gameState.captions = captions,
                                             ![roomCode].gameState.phase = "voting"]
                          /\ emitted' = <<Emit(roomCode, "captionsReady", captions),
                                          Emit(roomCode, "phaseChange", "voting")>>
                     ELSE /\ gameRooms' = [gameRooms EXCEPT
                                             ![roomCode].gameState.captions = captions]
                          /\ emitted' = <<>>
       ELSE /\ gameRooms' = gameRooms
            /\ emitted' = <<>>
  /\ UNCHANGED <<open, keys, pending, timers, stalled>>

getGameState(c, roomCode) ==
  /\ c \in open
  /\ handled < MaxEvents
  /\ handled' = handled + 1
  /\ last' = Event("getGameState", c, roomCode)
  /\ ack' = IF roomCode \in DOMAIN gameRooms
              THEN [op |-> "getGameState", gameState |-> gameRooms[roomCode].gameState,
                    players |-> gameRooms[roomCode].players]
              ELSE NoAck
  /\ emitted' = <<>>
  /\ UNCHANGED <<open, gameRooms, keys, pending, timers, stalled>>

\* voteCounts: target -> number of votes cast for it
voteCounts(votes) ==
  [t \in {votes[v] : v \in DOMAIN votes} |-> Cardinality({v \in DOMAIN votes : votes[v] = t})]

\* Math.max(...Object.values(voteCounts))
maxVotes(votes) ==
  LET counts == voteCounts(votes)
  IN  CHOOSE m \in {counts[t] : t \in DOMAIN counts} : \A t \in DOMAIN counts : counts[t] <= m

winners(votes) ==
  {key \in DOMAIN voteCounts(votes) : voteCounts(votes)[key] = maxVotes(votes)}

\* room.scores[winnerId] += 1, where a missing entry reads as undefined
PlusOne(scores, winnerId) ==
  IF winnerId \in DOMAIN scores /\ scores[winnerId] # NaN THEN scores[winnerId] + 1 ELSE NaN

updateScores(scores, ws) ==
  [x \in (DOMAIN scores) \cup ws |-> IF x \in ws THEN PlusOne(scores, x) ELSE scores[x]]

\* reset timers still pending for one room object
TimersOf(id) == Cardinality({i \in 1 .. Len(timers) : timers[i].id = id})

submitVote(c, roomCode, votedCaptionId) ==
  /\ c \in open
  /\ handled < MaxEvents
  /\ handled' = handled + 1
  /\ last' = Event("submitVote", c, roomCode)
  /\ ack' = NoAck
  /\ IF roomCode \in DOMAIN gameRooms
       THEN LET room == gameRooms[roomCode]
                votes == Put(room.gameState.votes, c, votedCaptionId)
            IN  IF allIn(Cardinality(DOMAIN votes), room.players)
                  THEN /\ Len(timers) < MaxTimers
                       /\ room.gameState.round + TimersOf(room.id) < MaxRound
                       /\ gameRooms' = [gameRooms EXCEPT
                            ![roomCode].gameState.votes = votes,
                            ![roomCode].scores = updateScores(@, winners(votes)),
                            ![roomCode].gameState.phase = "result"]
                       /\ emitted' = <<Emit(roomCode, "roundResult",
                                            [winners |-> winners(votes),
                                             scores |-> gameRooms'[roomCode].scores]),
                                       Emit(roomCode, "phaseChange", "result")>>
                       /\ timers' = Append(timers,
                            [code |-> roomCode, id |-> room.id,
                             round |-> room.gameState.round,
                             entered |-> room.gameState.phase # "result"])
                  ELSE /\ gameRooms' = [gameRooms EXCEPT ![roomCode].gameState.votes = votes]
                       /\ emitted' = <<>>
                       /\ timers' = timers
       ELSE /\ gameRooms' = gameRooms
            /\ emitted' = <<>>
            /\ timers' = timers
  /\ UNCHANGED <<open, keys, pending, stalled>>

\* what the reset callback writes into the room it captured
resetRound(room) ==
  [room EXCEPT !.gameState.round = @ + 1,
               !.gameState.phase = "promptSubmission",
               !.gameState.prompts = <<>>,
               !.gameState.imageUrl = "",
               !.gameState.captions = <<>>,
               !.gameState.votes = EmptyObj]

\* the oldest reset timer fires (all timers have the same 10 s delay)
timeout ==
  /\ timers # <<>>
  /\ LET t == Head(timers)
     IN  /\ gameRooms' = IF Live(t.code, t.id)
                           THEN [gameRooms EXCEPT ![t.code] = resetRound(@)]
                           ELSE gameRooms
         /\ emitted' = <<Emit(t.code, "phaseChange", "promptSubmission")>>
         /\ last' = Event("timeout", "", t.code)
         /\ stalled' = IF Live(t.code, t.id) THEN Forget(t.code) ELSE stalled
  /\ timers' = Tail(timers)
  /\ ack' = NoAck
  /\ UNCHANGED <<open, keys, pending, handled>>

\* one iteration of the disconnect loop, up to the emit
removeFrom(room, c) ==
  LET players == RemovePlayer(room.players, c)
  IN  [room EXCEPT !.players = players,
                   !.scores = Delete(@, c),
                   !.host = IF room.host = c /\ Len(players) > 0 THEN players[1].id ELSE @]

\* mutant of remaining: the emptied room is not deleted
remaining_keepEmpty(rooms, c) == DOMAIN rooms

\* the rooms disconnect keeps: those whose players array is not empty
remaining(rooms, c) == {r \in DOMAIN rooms : Len(removeFrom(rooms[r], c).players) # 0}

\* the registry after the disconnect loop has run for socket c
disconnectRooms(rooms, c) == [r \in remaining(rooms, c) |-> removeFrom(rooms[r], c)]

\* the registry's key order after the loop
disconnectKeys(rooms, ks, c) == SelectSeq(ks, LAMBDA r : r \in remaining(rooms, c))

\* the updatePlayers broadcasts of the loop, one per registered room
disconnectEmits(rooms, ks, c) ==
  [i \in 1 .. Len(ks) |-> Emit(ks[i], "updatePlayers", removeFrom(rooms[ks[i]], c).players)]

\* history after a disconnect: the collections of surviving rooms that the
\* departure of player c leaves larger than the players array
stalledAfter(rooms, c) ==
  LET after == disconnectRooms(rooms, c)
      fresh == {x \in (DOMAIN after) \X Kinds :
                  /\ c \in PlayerIds(rooms[x[1]])
                  /\ SizeOf(after[x[1]], x[2]) > Len(after[x[1]].players)}
      kept == {x \in DOMAIN stalled : x[1] \in DOMAIN after}
  IN  [x \in fresh \cup kept |-> IF x \in fresh THEN FALSE ELSE stalled[x]]

disconnect(c) ==
  /\ c \in open
  /\ handled < MaxEvents
  /\ handled' = handled + 1
  /\ open' = open \ {c}
  /\ gameRooms' = disconnectRooms(gameRooms, c)
  /\ keys' = disconnectKeys(gameRooms, keys, c)
  /\ emitted' = disconnectEmits(gameRooms, keys, c)
  /\ last' = [Event("disconnect", c, "") EXCEPT
                !.removed = {r \in DOMAIN gameRooms : c \in PlayerIds(gameRooms[r])}]
  /\ ack' = NoAck
  /\ stalled' = stalledAfter(gameRooms, c)
  /\ UNCHANGED <<pending, timers>>

\* ------------------------------------------------------------ behaviour
Init ==
  /\ open = Conns
  /\ gameRooms = EmptyObj
  /\ keys = <<>>
  /\ pending = EmptyBag
  /\ timers = <<>>
  /\ last = Event("init", "", "")
  /\ ack = NoAck
  /\ emitted = <<>>
  /\ handled = 0
  /\ stalled = EmptyObj

Next ==
  \/ \E c \in Conns : createGame(c)
  \/ \E c \in Conns, roomCode \in Codes, playerName \in Names : joinGame(c, roomCode, playerName)
  \/ \E c \in Conns, roomCode \in Codes : startGame(c, roomCode)
  \/ \E c \in Conns, roomCode \in Codes, prompt \in Texts : submitPrompt(c, roomCode, prompt)
  \/ \E p \in BagToSet(pending) : generateAIImageResolved(p)
  \/ \E p \in BagToSet(pending) : generateAIImageRejected(p)
  \/ \E c \in Conns, roomCode \in Codes, caption \in Texts : submitCaption(c, roomCode, caption)
  \/ \E c \in Conns, roomCode \in Codes : getGameState(c, roomCode)
  \/ \E c \in Conns, roomCode \in Codes, votedCaptionId \in Conns : submitVote(c, roomCode, votedCaptionId)
  \/ timeout
  \/ \E c \in Conns : disconnect(c)

Spec == Init /\ [][Next]_vars

\* A state the server is in after createGame by c1 (code A), submitVote(A) by
\* c1, submitVote(A) by c2, joinGame(A) by c1 and joinGame(A) by c2: both
\* votes were cast before anyone had joined, so no tally has run.
LateRoom ==
  [NewRoom(1, "c1") EXCEPT
     !.gameState.votes = [v \in Conns |-> "c1"],
     !.players = <<[id |-> "c1", name |-> "n"], [id |-> "c2", name |-> "n"]>>,
     !.scores = [v \in Conns |-> 0]]

LateState ==
  /\ open = Conns
  /\ gameRooms = [r \in {"A"} |-> LateRoom]
  /\ keys = <<"A">>
  /\ pending = EmptyBag
  /\ timers = <<>>
  /\ last = Event("joinGame", "c2", "A")
  /\ ack = [op |-> "joinGame", success |-> TRUE, message |-> ""]
  /\ emitted = <<Emit("A", "updatePlayers", LateRoom.players)>>
  /\ stalled = EmptyObj

\* the behaviours that continue from LateState; two events of the budget
\* count as spent, so MaxEvents - 2 further client events are handled
InitLate == LateState /\ handled = 2

SpecLate == InitLate /\ [][Next]_vars

\* ------------------------------------------------------------- claims
Phase(r) == gameRooms[r].gameState.phase

\* rooms registered before and after a step as the same room object
Kept == {r \in DOMAIN gameRooms : r \in DOMAIN gameRooms' /\ gameRooms'[r].id = gameRooms[r].id}

HasEmit(es, event) == \E i \in 1 .. Len(es) : es[i].event = event

\* C1: no step moves a room's phase away from promptSubmission while the
\* number of collected prompts differs from the number of players.
C1_PromptGate ==
  [][\A r \in Kept :
       (Phase(r) = "promptSubmission" /\ gameRooms'[r].gameState.phase # "promptSubmission")
         => Len(gameRooms[r].gameState.prompts) = Len(gameRooms[r].players)]_vars

PhaseEdges ==
  { <<"waiting", "promptSubmission">>, <<"promptSubmission", "captionSubmission">>,
    <<"captionSubmission", "voting">>, <<"voting", "result">>,
    <<"result", "promptSubmission">> }

\* C2: every change of a room's phase is one of the five edges of the
\* phase cycle.
C2_PhaseEdges ==
  [][\A r \in Kept :
       gameRooms'[r].gameState.phase # Phase(r)
         => <<Phase(r), gameRooms'[r].gameState.phase>> \in PhaseEdges]_vars

\* C3: a startGame whose sender is not the host, or that arrives in a phase
\* other than waiting, changes no room and broadcasts no phase change.
C3_StartGameGuard ==
  [][(last'.op = "startGame"
        /\ ~(/\ last'.code \in DOMAIN gameRooms
             /\ gameRooms[last'.code].host = last'.conn
             /\ Phase(last'.code) = "waiting"))
       => gameRooms' = gameRooms /\ ~HasEmit(emitted', "phaseChange")]_vars

\* C4: in every registered room the keys of scores are exactly the ids of
\* the current players.
C4_ScoresKeys ==
  \A r \in DOMAIN gameRooms : DOMAIN gameRooms[r].scores = PlayerIds(gameRooms[r])

\* C5: in every registered room with at least one player, the host is one
\* of the players.
C5_HostIsPlayer ==
  \A r \in DOMAIN gameRooms :
    gameRooms[r].players # <<>> => gameRooms[r].host \in PlayerIds(gameRooms[r])

\* C6: a room object that has players is never still registered with an
\* empty players array after a step: the disconnect that removes its last
\* player removes the room in the same step.
C6_EmptiedRoomRemoved ==
  [][\A r \in DOMAIN gameRooms :
       gameRooms[r].players # <<>>
         => \/ r \notin DOMAIN gameRooms'
            \/ gameRooms'[r].id # gameRooms[r].id
            \/ gameRooms'[r].players # <<>>]_vars

\* C6 witness: a disconnect has just removed the last player of a room, and
\* the room is gone from the registry.
C6_Witness ==
  /\ last.op = "disconnect"
  /\ \E r \in last.removed : r \notin DOMAIN gameRooms

\* the step is a submitVote that found all votes in
Tallied ==
  /\ last'.op = "submitVote"
  /\ last'.code \in DOMAIN gameRooms
  /\ Cardinality(DOMAIN gameRooms'[last'.code].gameState.votes)
       = Len(gameRooms[last'.code].players)

\* number of votes cast for target t
Tally(votes, t) == Cardinality({v \in DOMAIN votes : votes[v] = t})

\* C7: when a submitVote completes the vote, the announced winners are
\* exactly the targets with the maximum tally, each winner's score rises by
\* exactly 1 in that step, and every other player's score is unchanged.
C7_TallyAwardsWinners ==
  [][Tallied =>
       LET old == gameRooms[last'.code]
           new == gameRooms'[last'.code]
           votes == new.gameState.votes
           targets == {votes[v] : v \in DOMAIN votes}
           announced == emitted'[1].data.winners
       IN  /\ announced = {t \in targets : \A u \in targets : Tally(votes, u) <= Tally(votes, t)}
           /\ \A w \in announced :
                /\ w \in DOMAIN old.scores
                /\ w \in DOMAIN new.scores
                /\ old.scores[w] # NaN
                /\ new.scores[w] = old.scores[w] + 1
           /\ \A p \in PlayerIds(old) \ announced :
                p \in DOMAIN old.scores /\ p \in DOMAIN new.scores
                  /\ new.scores[p] = old.scores[p]]_vars

\* C8: when the reset scheduled on a room's entry into result fires and the
\* room is still registered, the round is one more than it was at that
\* entry, prompts, captions, votes and the image reference are empty, and
\* the phase is promptSubmission.
C8_ResetAdvancesRoundByOne ==
  [][(last'.op = "timeout" /\ timers # <<>> /\ Head(timers).entered
        /\ Live(Head(timers).code, Head(timers).id))
       => LET gs == gameRooms'[Head(timers).code].gameState
          IN  /\ gs.round = Head(timers).round + 1
              /\ gs.prompts = <<>> /\ gs.captions = <<>> /\ gs.votes = EmptyObj
              /\ gs.imageUrl = ""
              /\ gs.phase = "promptSubmission"]_vars

\* C9: a reset timer that fires after its room was deleted changes no room
\* of the registry and emits no broadcast.
C9_TimerOnDeletedRoomIsNoOp ==
  [][(last'.op = "timeout" /\ timers # <<>> /\ Head(timers).code \notin DOMAIN gameRooms)
       => gameRooms' = gameRooms /\ emitted' = <<>>]_vars

\* C10: joinGame with a code that is not registered acknowledges
\* success = false with "Room not found." and leaves the registry as it was;
\* with a registered code it appends the player to that room and sets the
\* connection's score to 0.
C10_JoinGame ==
  [][last'.op = "joinGame" =>
       IF last'.code \notin DOMAIN gameRooms
         THEN /\ ack'.success = FALSE
              /\ ack'.message = "Room not found."
              /\ gameRooms' = gameRooms
              /\ keys' = keys
         ELSE LET old == gameRooms[last'.code]
                  new == gameRooms'[last'.code]
              IN  /\ ack'.success = TRUE
                  /\ \E playerName \in Names :
                       new.players = Append(old.players, [id |-> last'.conn, name |-> playerName])
                  /\ last'.conn \in DOMAIN new.scores
                  /\ new.scores[last'.conn] = 0]_vars

\* C10 witness: a joinGame for an unregistered code was refused while
\* another room, with a player in it, is registered.
C10_Witness ==
  /\ last.op = "joinGame"
  /\ ack.op = "joinGame" /\ ack.success = FALSE
  /\ last.code \notin DOMAIN gameRooms
  /\ \E r \in DOMAIN gameRooms : gameRooms[r].players # <<>>

\* C11: getGameState for a code that is not registered answers the caller
\* with a room-not-found failure; for a registered code it answers with the
\* room's current gameState and players.
C11_GetGameStateAnswers ==
  [][last'.op = "getGameState" =>
       IF last'.code \notin DOMAIN gameRooms
         THEN ack'.op = "getGameState" /\ "gameState" \notin DOMAIN ack'
         ELSE /\ ack'.op = "getGameState"
              /\ ack'.gameState = gameRooms[last'.code].gameState
              /\ ack'.players = gameRooms[last'.code].players]_vars

\* C12: createGame returns a code that no registered room has, leaves every
\* registered room as it was, and registers a room in phase waiting, round 1,
\* with no players and no scores.
C12_CreateGameFreshCode ==
  [][last'.op = "createGame" =>
       /\ last'.code \notin DOMAIN gameRooms
       /\ \A r \in DOMAIN gameRooms : r \in DOMAIN gameRooms' /\ gameRooms'[r] = gameRooms[r]
       /\ gameRooms'[last'.code].gameState.phase = "waiting"
       /\ gameRooms'[last'.code].gameState.round = 1
       /\ gameRooms'[last'.code].players = <<>>
       /\ gameRooms'[last'.code].scores = EmptyObj]_vars

C14_ImageFailureNoTransition ==
  [][last'.op = "imageRejected" =>
       /\ gameRooms' = gameRooms
       /\ ~HasEmit(emitted', "imageGenerated")
       /\ ~HasEmit(emitted', "phaseChange")]_vars

\* C14 witness: the call failed for a registered room that is in
\* promptSubmission with all prompts in and no image.
C14_Witness ==
  /\ last.op = "imageRejected"
  /\ last.code \in DOMAIN gameRooms
  /\ LET room == gameRooms[last.code]
     IN  /\ room.gameState.phase = "promptSubmission"
         /\ room.gameState.imageUrl = ""
         /\ room.players # <<>>
         /\ Len(room.gameState.prompts) = Len(room.players)

\* C15: in every registered room the prompts array holds at most one entry
\* per connection.
C15_OnePromptPerConnection ==
  \A r \in DOMAIN gameRooms :
    LET prompts == gameRooms[r].gameState.prompts
    IN  \A i, j \in 1 .. Len(prompts) : prompts[i].id = prompts[j].id => i = j

\* C16: at most one image-generation call is outstanding per room.
C16_OneImageCallPerRoom ==
  \A r \in DOMAIN gameRooms :
    \A p \in BagToSet(pending) :
      p.id = gameRooms[r].id =>
        /\ CopiesIn(p, pending) <= 1
        /\ \A q \in BagToSet(pending) : q.id = p.id => q = p

\* C17: the disconnect of a connection that is not a player of a room leaves
\* that room registered and unchanged, and broadcasts nothing to it.
C17_DisconnectOfNonPlayer ==
  [][last'.op = "disconnect" =>
       \A r \in DOMAIN gameRooms :
         last'.conn \notin PlayerIds(gameRooms[r]) =>
           /\ r \in DOMAIN gameRooms'
           /\ gameRooms'[r] = gameRooms[r]
           /\ \A i \in 1 .. Len(emitted') : emitted'[i].room # r]_vars

\* C19: a submitVote that arrives while the room is in result changes no
\* score, emits no roundResult and schedules no further reset.
C19_NoTallyInResult ==
  [][(last'.op = "submitVote" /\ last'.code \in DOMAIN gameRooms
        /\ Phase(last'.code) = "result")
       => /\ gameRooms'[last'.code].scores = gameRooms[last'.code].scores
          /\ ~HasEmit(emitted', "roundResult")
          /\ timers' = timers]_vars

\* C20: a submitPrompt, submitCaption or submitVote from a connection that is
\* not in the room's players leaves the room as it was.
C20_SubmitByNonPlayer ==
  [][(last'.op \in {"submitPrompt", "submitCaption", "submitVote"}
        /\ last'.code \in DOMAIN gameRooms
        /\ last'.conn \notin PlayerIds(gameRooms[last'.code]))
       => /\ gameRooms'[last'.code] = gameRooms[last'.code]
          /\ pending' = pending
          /\ timers' = timers]_vars

\* the step is a submission whose gate opened for collection kind of room r
Completes(r, kind) ==
  /\ last'.code = r
  /\ r \in DOMAIN gameRooms
  /\ CASE kind = "prompts" ->
            last'.op = "submitPrompt" /\ BagCardinality(pending') > BagCardinality(pending)
       [] kind = "captions" -> last'.op = "submitCaption" /\ HasEmit(emitted', "captionsReady")
       [] kind = "votes" -> last'.op = "submitVote" /\ HasEmit(emitted', "roundResult")

====
